---- MODULE Spec2Model ----
(***************************************************************************)
(* Model of src/app.py: the stock report updater.  One run loads data.json, *)
(* builds the working set (prior identifiers plus an optional --add         *)
(* identifier), refreshes every identifier with get_stock_data (market      *)
(* facts, generative-model fallback loop, merge) and writes data.json.      *)
(*                                                                           *)
(* Representation.  A Python str is a sequence of one-character strings     *)
(* (free text that the program never inspects is a one-element sequence     *)
(* holding the whole text).  A JSON value is a tagged record: JO (dict, a   *)
(* function from keys to JSON values), JL (list), JS (str), JNum, JNull.    *)
(* Money is counted in thousandths (mills): 100.00 is 100000, and the        *)
(* arithmetic on it is exact decimal arithmetic; the rounding error of      *)
(* Python's binary floats is not represented.                               *)
(***************************************************************************)
EXTENDS Integers, Sequences, FiniteSets, TLC

\* ------------------------------------------------------------------------
\* Python str operations
\* ------------------------------------------------------------------------

\* Characters in code-point order; Python compares str by code point.
Alphabet ==
  <<" ","-",".","/","0","1","2","3","4","5","6","7","8","9",
    "A","B","C","D","E","F","G","H","I","J","K","L","M","N","O","P","Q","R",
    "S","T","U","V","W","X","Y","Z",
    "a","b","c","d","e","f","g","h","i","j","k","l","m","n","o","p","q","r",
    "s","t","u","v","w","x","y","z">>

Ord(c) == CHOOSE i \in 1..Len(Alphabet) : Alphabet[i] = c

\* a < b for str (lexicographic, a proper prefix is smaller)
RECURSIVE StrLess(_, _)
StrLess(a, b) ==
  IF b = <<>> THEN FALSE
  ELSE IF a = <<>> THEN TRUE
  ELSE IF Head(a) = Head(b) THEN StrLess(Tail(a), Tail(b))
  ELSE Ord(Head(a)) < Ord(Head(b))

\* sub in s
Contains(s, sub) ==
  \E i \in 1..(Len(s) - Len(sub) + 1) : SubSeq(s, i, i + Len(sub) - 1) = sub

\* s.replace(old, "") for a non-empty old: leftmost non-overlapping matches
RECURSIVE RemoveAll(_, _)
RemoveAll(s, old) ==
  IF Len(s) < Len(old) THEN s
  ELSE IF SubSeq(s, 1, Len(old)) = old
       THEN RemoveAll(SubSeq(s, Len(old) + 1, Len(s)), old)
       ELSE <<Head(s)>> \o RemoveAll(Tail(s), old)

LowerChars == <<"a","b","c","d","e","f","g","h","i","j","k","l","m","n","o",
                "p","q","r","s","t","u","v","w","x","y","z">>
UpperChars == <<"A","B","C","D","E","F","G","H","I","J","K","L","M","N","O",
                "P","Q","R","S","T","U","V","W","X","Y","Z">>

UpperChar(c) ==
  IF \E i \in 1..Len(LowerChars) : LowerChars[i] = c
  THEN UpperChars[CHOOSE i \in 1..Len(LowerChars) : LowerChars[i] = c]
  ELSE c

\* s.upper()
Upper(s) == [i \in 1..Len(s) |-> UpperChar(s[i])]

\* s.strip()
RECURSIVE LStrip(_)
LStrip(s) == IF s # <<>> /\ Head(s) = " " THEN LStrip(Tail(s)) ELSE s
RECURSIVE RStrip(_)
RStrip(s) ==
  IF s # <<>> /\ s[Len(s)] = " " THEN RStrip(SubSeq(s, 1, Len(s) - 1)) ELSE s
Strip(s) == RStrip(LStrip(s))

\* s.split('/')[-1]
RECURSIVE SplitLast(_)
SplitLast(s) ==
  IF \E i \in 1..Len(s) : s[i] = "/"
  THEN SplitLast(SubSeq(s, (CHOOSE i \in 1..Len(s) : s[i] = "/") + 1, Len(s)))
  ELSE s

\* ------------------------------------------------------------------------
\* JSON values
\* ------------------------------------------------------------------------
JS(s)   == [t |-> "str",  v |-> s]
JNum(n) == [t |-> "num",  v |-> n]
JB(b)   == [t |-> "bool", v |-> b]
JL(q)   == [t |-> "list", v |-> q]
JO(f)   == [t |-> "dict", v |-> f]
JNull   == [t |-> "null"]
EmptyDict == JO(<<>>)
EmptyList == JL(<<>>)

\* An exception raised while evaluating an expression.
Raise == [t |-> "raise"]

\* A local variable that has not been assigned.
Unset == [t |-> "unset"]

IsDict(j) == j.t = "dict"
HasKey(j, k) == IsDict(j) /\ k \in DOMAIN j.v

\* d.get(k, default): AttributeError unless d is a dict
DictGet(d, k, default) ==
  IF d = Raise \/ ~IsDict(d) THEN Raise
  ELSE IF k \in DOMAIN d.v THEN d.v[k] ELSE default

\* Python truthiness of a JSON value
Truthy(j) ==
  CASE j.t = "null" -> FALSE
    [] j.t = "bool" -> j.v
    [] j.t = "num"  -> j.v # 0
    [] j.t = "str"  -> j.v # <<>>
    [] j.t = "list" -> j.v # <<>>
    [] j.t = "dict" -> DOMAIN j.v # {}
    [] OTHER -> FALSE

\* ------------------------------------------------------------------------
\* get_best_models
\* ------------------------------------------------------------------------
ModelsPrefix == <<"m","o","d","e","l","s","/">>
GeminiPrefix == ModelsPrefix \o <<"g","e","m","i","n","i","-">>
Gemini15Pro     == GeminiPrefix \o <<"1",".","5","-","p","r","o">>
Gemini15Flash   == GeminiPrefix \o <<"1",".","5","-","f","l","a","s","h">>
Gemini20FlashExp == GeminiPrefix \o <<"2",".","0","-","f","l","a","s","h","-","e","x","p">>
Gemini20Pro     == GeminiPrefix \o <<"2",".","0","-","p","r","o">>
GeminiUltra     == GeminiPrefix \o <<"u","l","t","r","a">>
Embedding001    == ModelsPrefix \o <<"e","m","b","e","d","d","i","n","g","-","0","0","1">>

default_models == <<Gemini15Pro, Gemini15Flash>>

\* descending insertion of one name into a descending list
RECURSIVE InsertDesc(_, _)
InsertDesc(q, m) ==
  IF q = <<>> THEN <<m>>
  ELSE IF StrLess(Head(q), m) THEN <<m>> \o q
  ELSE <<Head(q)>> \o InsertDesc(Tail(q), m)

\* all_models.sort(reverse=True)
RECURSIVE SortDesc(_)
SortDesc(q) == IF q = <<>> THEN <<>> ELSE InsertDesc(SortDesc(Tail(q)), Head(q))

IsExp(m)   == Contains(m, <<"e","x","p">>)
IsPro(m)   == Contains(m, <<"p","r","o">>) /\ ~Contains(m, <<"e","x","p">>)
IsFlash(m) == Contains(m, <<"f","l","a","s","h">>) /\ ~Contains(m, <<"e","x","p">>)

\* A catalog entry is [name, methods]; m.supported_generation_methods is a
\* set of method names.
Generates(e) ==
  "generateContent" \in e.methods /\ Contains(e.name, <<"g","e","m","i","n","i">>)

RECURSIVE CatalogNames(_)
CatalogNames(cat) ==
  IF cat = <<>> THEN <<>>
  ELSE (IF Generates(Head(cat)) THEN <<Head(cat).name>> ELSE <<>>)
       \o CatalogNames(Tail(cat))

\* catalog is Raise when genai.list_models() throws
get_best_models(catalog) ==
  IF catalog = Raise THEN default_models
  ELSE LET all_models == SortDesc(CatalogNames(catalog.v))
           final == SelectSeq(all_models, IsExp) \o SelectSeq(all_models, IsPro)
                    \o SelectSeq(all_models, IsFlash)
       IN IF final # <<>> THEN final ELSE default_models

\* ------------------------------------------------------------------------
\* Number formatting (amounts in mills)
\* ------------------------------------------------------------------------
Abs(x) == IF x < 0 THEN -x ELSE x

\* n / d rounded to the nearest integer, ties to even (n >= 0, d > 0)
RoundDiv(n, d) ==
  LET q == n \div d
      r == n % d
  IN IF 2 * r < d THEN q
     ELSE IF 2 * r > d THEN q + 1
     ELSE IF q % 2 = 0 THEN q ELSE q + 1

Pad2(n) == IF n < 10 THEN "0" \o ToString(n) ELSE ToString(n)

\* digits of "%.2f" for a non-negative number of cents
CentsText(c) == <<ToString(c \div 100), ".", Pad2(c % 100)>>

\* f"{x:.2f}"
Fmt2(x) == (IF x < 0 THEN <<"-">> ELSE <<>>) \o CentsText(RoundDiv(Abs(x), 10))

\* f"{x:+.2f}"
FmtSigned2(x) == (IF x < 0 THEN <<"-">> ELSE <<"+">>) \o CentsText(RoundDiv(Abs(x), 10))

\* f"{(chg / prev) * 100:+.2f}%" (prev # 0)
FmtPct(chg, prev) ==
  (IF (chg < 0) # (prev < 0) /\ chg # 0 THEN <<"-">> ELSE <<"+">>)
  \o CentsText(RoundDiv(Abs(chg) * 10000, Abs(prev))) \o <<"%">>

\* round(x, 2)
Round2(x) == RoundDiv(x, 10) * 10

\* d.strftime('%Y-%m') of month number ym = 12 * year + (month - 1)
FmtYM(ym) == <<ToString(ym \div 12), "-", Pad2((ym % 12) + 1)>>

\* ------------------------------------------------------------------------
\* get_stock_data, part 1: facts
\* ------------------------------------------------------------------------

\* Lines 86-102.  fast is ticker.fast_info (Raise when the quote call
\* throws, else a dict whose values are numbers or None); hist5 is
\* ticker.history(period="5d")['Close'] (Raise, or the list of closes,
\* oldest first).
\* The result is the frame's price (a number or None), change_str and
\* change_pct after the try block.
ResolvePrice(fast, hist5) ==
  LET unset == [price |-> JNum(0), change_str |-> <<"0">>, change_pct |-> <<"0","%">>]
  IN IF fast = Raise THEN unset
     ELSE
       LET price0 == DictGet(fast, "last_price", JNum(0))
           prev0  == DictGet(fast, "previous_close", JNum(0))
           fallback == price0 = JNum(0)
           closes == IF hist5 = Raise THEN <<>> ELSE hist5.v
           \* the fallback's assignments up to the first exception
           histRaises == fallback /\ (hist5 = Raise \/ Len(closes) = 1)
           price == IF fallback /\ closes # <<>>
                    THEN JNum(closes[Len(closes)]) ELSE price0
           prev  == IF fallback /\ Len(closes) >= 2
                    THEN JNum(closes[Len(closes) - 1]) ELSE prev0
       IN IF ~histRaises /\ Truthy(price) /\ Truthy(prev)
          THEN [price |-> price,
                change_str |-> FmtSigned2(price.v - prev.v),
                change_pct |-> FmtPct(price.v - prev.v, prev.v)]
          ELSE [unset EXCEPT !.price = price]

\* Lines 109-115.  news is ticker.news (Raise, or a list of items); an item
\* that is not a dict makes n.get raise, which ends the loop and keeps the
\* lines already appended.  A line keeps the timestamp number; its date
\* text is not computed.
NewsLimit == 3
RECURSIVE NewsLines(_)
NewsLines(items) ==
  IF items = <<>> \/ ~IsDict(Head(items)) THEN <<>>
  ELSE <<[dt |-> DictGet(Head(items), "providerPublishTime", JNum(0)),
          title |-> DictGet(Head(items), "title", JS(<<>>))]>>
       \o NewsLines(Tail(items))

NewsText(news) ==
  IF news = Raise THEN <<>>
  ELSE NewsLines(SubSeq(news.v, 1,
                        IF Len(news.v) < NewsLimit THEN Len(news.v) ELSE NewsLimit))

\* Lines 118-123.  hist1y is the one-year daily series, oldest first, each
\* row [ym, close]; every month between the first and the last row has a row.
ChartPoints == 12

\* hist1y['Close'].resample('ME').last(): the last close of every month
MonthEnds(hist1y) ==
  IF hist1y = <<>> THEN <<>>
  ELSE LET first == hist1y[1].ym
           last  == hist1y[Len(hist1y)].ym
           lastRow(ym) == CHOOSE k \in 1..Len(hist1y) :
                             /\ hist1y[k].ym = ym
                             /\ \A j \in (k + 1)..Len(hist1y) : hist1y[j].ym # ym
       IN [n \in 1..(last - first + 1) |->
             [ym |-> first + n - 1, close |-> hist1y[lastRow(first + n - 1)].close]]

\* .tail(n)
TailN(q, n) == IF Len(q) <= n THEN q ELSE SubSeq(q, Len(q) - n + 1, Len(q))

MonthlySeries(hist1y) ==
  LET res == TailN(MonthEnds(hist1y), ChartPoints)
  IN [prices |-> [n \in 1..Len(res) |-> Round2(res[n].close)],
      dates  |-> [n \in 1..Len(res) |-> FmtYM(res[n].ym)]]

\* ------------------------------------------------------------------------
\* get_stock_data, part 2: merge (lines 145-206)
\* ------------------------------------------------------------------------

\* Fixed texts of the source, written in ASCII.
CategoryUnclassified == <<"unclassified">>   \* line 166, first default
CategoryNew          == <<"newly-added">>    \* lines 166 and 230
Dash                 == JS(<<"-">>)
ModelNone            == <<"N","/","A">>      \* line 127
Now                  == <<"now">>            \* datetime.datetime.now() text

IndustryDefault ==
  JO([moat_status |-> Dash, position_map |-> Dash, competitors |-> Dash])
TechnicalDefault ==
  JO([status |-> JS(<<"watch">>), signal_light |-> JS(<<"stable">>),
      analysis_text |-> JS(<<"analysing">>),
      predictions |-> JO([days30 |-> Dash, entry_zone |-> Dash]),
      correction_c |-> Dash,
      bollinger |-> JO([status |-> Dash, description |-> Dash])])
DividendDefault ==
  JO([yield |-> Dash, history_roi |-> Dash, future_roi |-> Dash])

\* [p * num / 10 for p in prices]; prices are multiples of 10 mills
Scale(prices, num) == [n \in 1..Len(prices) |-> (prices[n] * num) \div 10]
NumList(q) == JL([n \in 1..Len(q) |-> JNum(q[n])])
StrList(q) == JL([n \in 1..Len(q) |-> JS(q[n])])

\* str(x) of a number of mills: shortest decimal text, at least one decimal
FloatText(x) ==
  LET a == Abs(x)
      f == a % 1000
      frac == IF f % 100 = 0 THEN ToString(f \div 100)
              ELSE IF f % 10 = 0 THEN Pad2(f \div 10)
              ELSE (IF f < 100 THEN "0" ELSE "") \o Pad2(f)
  IN (IF x < 0 THEN <<"-">> ELSE <<>>) \o <<ToString(a \div 1000), ".", frac>>

\* str(v) for a value of ticker.info
StrOf(j) ==
  CASE j.t = "str"  -> JS(j.v)
    [] j.t = "num"  -> JS(FloatText(j.v))
    [] j.t = "null" -> JS(<<"None">>)
    [] OTHER -> JS(<<"?">>)

\* ai_part.get("financials", {}).get("valuation", {})
Valuation(ai_part) ==
  DictGet(DictGet(ai_part, "financials", EmptyDict), "valuation", EmptyDict)

\* ....get("pe_river_data", {}).get(band, default)
Band(ai_part, band, default) ==
  DictGet(DictGet(Valuation(ai_part), "pe_river_data", EmptyDict), band, default)

\* The river with the factors of the upper and the lower band exchanged
pe_river_Swapped(f) ==
  [dates |-> StrList(f.dates),
   price |-> NumList(f.prices),
   pe20  |-> Band(f.ai_part, "pe20", NumList(Scale(f.prices, 8))),
   pe16  |-> Band(f.ai_part, "pe16", NumList(Scale(f.prices, 10))),
   pe12  |-> Band(f.ai_part, "pe12", NumList(Scale(f.prices, 12)))]

\* lines 155-161
pe_river(f) ==
  [dates |-> StrList(f.dates),
   price |-> NumList(f.prices),
   pe20  |-> Band(f.ai_part, "pe20", NumList(Scale(f.prices, 12))),
   pe16  |-> Band(f.ai_part, "pe16", NumList(Scale(f.prices, 10))),
   pe12  |-> Band(f.ai_part, "pe12", NumList(Scale(f.prices, 8)))]

\* f"{price:.2f}": TypeError when price is None
PriceText(price) == IF price.t = "num" THEN JS(Fmt2(price.v)) ELSE Raise

\* str(ticker.info.get('priceToBook', '-'))
PriceToBook(info) ==
  IF info = Raise THEN Raise ELSE StrOf(DictGet(info, "priceToBook", Dash))

\* A dict built from parts; building it raises when evaluating a part raised.
\* The parts are evaluated once, as a dict display does.
Build(parts) ==
  CHOOSE r \in {IF \E k \in DOMAIN p : p[k] = Raise THEN Raise ELSE JO(p) :
                  p \in {parts}} : TRUE

\* basicInfo with the model's block taking precedence over the facts
basicInfo_ModelFirst(f) ==
  DictGet(f.ai_part, "basicInfo",
          Build([price |-> PriceText(f.price), change |-> JS(f.change_str),
                 changePercent |-> JS(f.change_pct), note |-> JS(<<>>)]))

\* lines 171-176
basicInfo(f) ==
  Build([price |-> PriceText(f.price),
         change |-> JS(f.change_str),
         changePercent |-> JS(f.change_pct),
         note |-> JS(<<>>)])

\* Lines 163-204.  f is the frame of get_stock_data (its local variables),
\* old_data the prior-or-placeholder record (JNull for None), info the
\* value of ticker.info (Raise when the profile call throws).
final_data(f, old_data, info) ==
  LET ai == f.ai_part
      hasOld == Truthy(old_data)
  IN Build(
      [id          |-> JS(f.stock_id),
       name        |-> IF f.name = Unset THEN JS(f.stock_id) ELSE f.name,
       category    |-> IF hasOld
                       THEN DictGet(old_data, "category", JS(CategoryUnclassified))
                       ELSE JS(CategoryNew),
       lastUpdated |-> JS(Now),
       ai_model    |-> JS(f.model_name),
       memo        |-> IF hasOld THEN DictGet(old_data, "memo", JS(<<>>)) ELSE JS(<<>>),
       basicInfo   |-> basicInfo(f),
       industry    |-> DictGet(ai, "industry", IndustryDefault),
       news_events |-> Build(
          [news     |-> DictGet(DictGet(ai, "news_events", EmptyDict), "news", EmptyList),
           calendar |-> DictGet(DictGet(ai, "news_events", EmptyDict), "calendar", EmptyList)]),
       financials  |-> Build(
          [eps_table     |-> DictGet(DictGet(ai, "financials", EmptyDict), "eps_table", EmptyList),
           revenue_trend |-> DictGet(DictGet(ai, "financials", EmptyDict), "revenue_trend", EmptyList),
           valuation     |-> Build(
              [pe_status     |-> DictGet(Valuation(ai), "pe_status", Dash),
               pb            |-> PriceToBook(info),
               roe           |-> DictGet(Valuation(ai), "roe", Dash),
               pe_river_data |-> Build(pe_river(f))])]),
       technical   |-> DictGet(ai, "technical", TechnicalDefault),
       dividend    |-> DictGet(ai, "dividend", DividendDefault)])

\* ------------------------------------------------------------------------
\* The model's response text (lines 136-138)
\* ------------------------------------------------------------------------
\* A response text is a sequence of chunks: the fence (three backticks), the word
\* json, a JSON document (carrying the value it denotes) or other text.
Ticks      == [k |-> "fence"]
JsonWord   == [k |-> "json"]
Junk       == [k |-> "text"]
Doc(j)     == [k |-> "doc", v |-> j]

\* json.loads(text): the text must be exactly one JSON document
json_loads(text) ==
  IF Len(text) = 1 /\ text[1].k = "doc" THEN text[1].v ELSE Raise

\* resp is Raise when generate_content or resp.text throws
ParseResponse(resp) ==
  IF resp = Raise THEN Raise
  ELSE json_loads(RemoveAll(RemoveAll(resp.v, <<Ticks, JsonWord>>), <<Ticks>>))

\* ------------------------------------------------------------------------
\* State
\* ------------------------------------------------------------------------
VARIABLES
  file,            \* content of data.json: NoFile, BadFile or a JSON value
  add,             \* args.add: JNull or a str
  GEMINI_API_KEY,  \* whether the environment variable is set
  catalog,         \* what genai.list_models() answers (line 20)
  MODEL_PRIORITY,  \* line 32
  pc,              \* position of the main script
  current_data,    \* line 213
  old_map,         \* line 215, with the placeholder of line 230
  target_list,     \* lines 222-228
  final_results,   \* line 232
  i,               \* position of the for loop of line 235 in target_list
  ticker,          \* what the market-data provider answers for target_list[i]
  fr,              \* local variables of the running get_stock_data call
  log              \* per processed identifier: how its iteration ended

vars == <<file, add, GEMINI_API_KEY, catalog, MODEL_PRIORITY, pc, current_data, old_map, target_list,
          final_results, i, ticker, fr, log>>

NoFile  == [t |-> "absent"]    \* os.path.exists is False
BadFile == [t |-> "invalid"]   \* not parsable as JSON (also an empty file)

\* lines 67-75
get_current_list(f) == IF f.t = "list" THEN f.v ELSE <<>>

NoTicker == [fast |-> Raise, hist5 |-> Raise, news |-> Raise, hist1y |-> Raise,
             info |-> Raise]

NewFrame == [stock_id |-> <<>>, price |-> JNum(0), change_str |-> <<"0">>,
             change_pct |-> <<"0", "%">>, news_text |-> <<>>, dates |-> <<>>,
             prices |-> <<>>, name |-> Unset, ai_part |-> EmptyDict,
             model_name |-> ModelNone, cursor |-> 1, attempts |-> <<>>]

\* list(old_map.keys()): identifiers in order of first occurrence
RECURSIVE KeysInOrder(_, _)
KeysInOrder(data, seen) ==
  IF data = <<>> THEN <<>>
  ELSE LET k == Head(data).v.id.v
       IN IF k \in seen THEN KeysInOrder(Tail(data), seen)
          ELSE <<k>> \o KeysInOrder(Tail(data), seen \cup {k})

\* {item['id']: item for item in current_data}: the last item of each id
MapOf(data) ==
  [k \in {data[n].v.id.v : n \in 1..Len(data)} |->
     data[CHOOSE n \in 1..Len(data) :
            /\ data[n].v.id.v = k
            /\ \A j \in (n + 1)..Len(data) : data[j].v.id.v # k]]

InList(q, x) == \E n \in 1..Len(q) : q[n] = x

\* line 230
Placeholder(new_id) ==
  JO([id |-> JS(new_id), category |-> JS(CategoryNew), memo |-> JS(<<>>)])

\* item['id'] raises for an item that is not a dict or has no 'id'
Subscriptable(data) == \A n \in 1..Len(data) : HasKey(data[n], "id")

\* The state when the main script starts: the module-level statements
\* (lines 12-32) have run.  invocations is a set of [file, add] pairs.
Init0(invocations, keys, catalogs) ==
  /\ \E inv \in invocations : file = inv.file /\ add = inv.add
  /\ GEMINI_API_KEY \in keys
  /\ catalog \in catalogs
  /\ MODEL_PRIORITY = get_best_models(catalog)
  /\ pc = "start"
  /\ current_data = <<>>
  /\ old_map = <<>>
  /\ target_list = <<>>
  /\ final_results = <<>>
  /\ i = 1
  /\ ticker = NoTicker
  /\ fr = NewFrame
  /\ log = <<>>

\* Lines 213-232: load, build the lookup and the working set.
BuildWorkingSet ==
  /\ pc = "start"
  /\ current_data' = get_current_list(file)
  /\ LET data == get_current_list(file)
     IN IF ~Subscriptable(data)
        THEN /\ pc' = "crashed"
             /\ UNCHANGED <<old_map, target_list>>
        ELSE LET map0  == MapOf(data)
                 keys0 == KeysInOrder(data, {})
                 new_id == Upper(Strip(add.v))
                 adding == Truthy(add) /\ ~InList(keys0, new_id)
             IN /\ target_list' = IF adding THEN <<new_id>> \o keys0 ELSE keys0
                /\ old_map' = IF adding
                              THEN (new_id :> Placeholder(new_id)) @@ map0
                              ELSE map0
                /\ pc' = IF target_list' = <<>> THEN "save" ELSE "fetch"
  /\ final_results' = <<>>
  /\ i' = 1
  /\ UNCHANGED <<file, add, GEMINI_API_KEY, catalog, MODEL_PRIORITY, ticker, fr, log>>

\* The loop body without the branch of lines 241-245.
Finish_NoCarry(result, usable) ==
  LET sid == target_list[i]
  IN /\ final_results' =
          IF result # Raise THEN Append(final_results, result) ELSE final_results
     /\ log' = Append(log, [sid |-> sid,
                            kind |-> IF result # Raise THEN "refresh" ELSE "drop",
                            usable |-> usable])
     /\ i' = i + 1
     /\ pc' = IF i + 1 > Len(target_list) THEN "save" ELSE "fetch"

\* The loop body carrying over whatever old_map holds, without the test for
\* a 'name' of line 243.
Finish_CarriesPlaceholder(result, usable) ==
  LET sid == target_list[i]
      old_info == old_map[sid]
      carried == result = Raise /\ Truthy(old_info)
  IN /\ final_results' =
          IF result # Raise THEN Append(final_results, result)
          ELSE IF carried THEN Append(final_results, old_info)
          ELSE final_results
     /\ log' = Append(log, [sid |-> sid,
                            kind |-> IF result # Raise THEN "refresh"
                                     ELSE IF carried THEN "carry" ELSE "drop",
                            usable |-> usable])
     /\ i' = i + 1
     /\ pc' = IF i + 1 > Len(target_list) THEN "save" ELSE "fetch"

\* The loop body with a failed identifier ending the run.
Finish_StopsOnFailure(result, usable) ==
  LET sid == target_list[i]
  IN /\ final_results' =
          IF result # Raise THEN Append(final_results, result) ELSE final_results
     /\ log' = Append(log, [sid |-> sid,
                            kind |-> IF result # Raise THEN "refresh" ELSE "drop",
                            usable |-> usable])
     /\ i' = i + 1
     /\ pc' = IF result = Raise THEN "crashed"
              ELSE IF i + 1 > Len(target_list) THEN "save" ELSE "fetch"

\* Lines 236-247: what the loop body does with the value get_stock_data
\* returned (Raise stands for None) for target_list[i].
Finish(result, usable) ==
  LET sid == target_list[i]
      old_info == old_map[sid]
      carried == result = Raise /\ Truthy(old_info) /\ HasKey(old_info, "name")
  IN /\ final_results' =
          IF result # Raise THEN Append(final_results, result)
          ELSE IF carried THEN Append(final_results, old_info)
          ELSE final_results
     /\ log' = Append(log, [sid |-> sid,
                            kind |-> IF result # Raise THEN "refresh"
                                     ELSE IF carried THEN "carry" ELSE "drop",
                            usable |-> usable])
     /\ i' = i + 1
     /\ pc' = IF i + 1 > Len(target_list) THEN "save" ELSE "fetch"

\* the price left by lines 86-102 is a number other than zero
Usable(price) == price.t = "num" /\ price.v # 0

\* Lines 79-131: get_stock_data up to the model loop, for target_list[i].
\* w is what the provider answers for this identifier.  The prompt of line
\* 131 is read by generate_content only, whose answer is an input of
\* TryCandidate; safe_get (lines 148-152) is never called.
FetchFacts(worlds) ==
  /\ pc = "fetch"
  /\ \E w \in worlds :
       LET sid == target_list[i]
           stock_id == RemoveAll(sid, <<".", "T", "W">>)
           rp == ResolvePrice(w.fast, w.hist5)
           series == MonthlySeries(w.hist1y.v)
           frame == [NewFrame EXCEPT
                       !.stock_id = stock_id,
                       !.price = rp.price,
                       !.change_str = rp.change_str,
                       !.change_pct = rp.change_pct]
       IN /\ ticker' = w
          /\ IF rp.price = JNum(0)
             THEN \* line 104: return None
                  /\ fr' = frame
                  /\ Finish(Raise, FALSE)
             ELSE IF w.hist1y = Raise
             THEN \* line 118 throws, line 208 returns None
                  /\ fr' = [frame EXCEPT !.news_text = NewsText(w.news)]
                  /\ Finish(Raise, Usable(rp.price))
             ELSE IF GEMINI_API_KEY /\ w.info = Raise
             THEN \* line 130 throws
                  /\ fr' = [frame EXCEPT !.news_text = NewsText(w.news),
                                         !.dates = series.dates,
                                         !.prices = series.prices]
                  /\ Finish(Raise, Usable(rp.price))
             ELSE /\ fr' = [frame EXCEPT
                              !.news_text = NewsText(w.news),
                              !.dates = series.dates,
                              !.prices = series.prices,
                              !.name = IF GEMINI_API_KEY
                                       THEN DictGet(w.info, "longName", JS(stock_id))
                                       ELSE Unset]
                  /\ pc' = IF GEMINI_API_KEY /\ MODEL_PRIORITY # <<>>
                           THEN "invoke" ELSE "merge"
                  /\ UNCHANGED <<final_results, log, i>>
  /\ UNCHANGED <<file, add, GEMINI_API_KEY, catalog, MODEL_PRIORITY, current_data, old_map, target_list>>

\* The model loop without the break of line 140.
TryCandidate_NoBreak(responses) ==
  /\ pc = "invoke"
  /\ \E resp \in responses :
       LET n == fr.cursor
           m == MODEL_PRIORITY[n]
           parsed == ParseResponse(resp)
       IN /\ fr' = IF parsed = Raise
                   THEN [fr EXCEPT !.attempts = Append(@, [n |-> n, ok |-> FALSE]),
                                   !.cursor = n + 1]
                   ELSE [fr EXCEPT !.attempts = Append(@, [n |-> n, ok |-> TRUE]),
                                   !.cursor = n + 1,
                                   !.ai_part = parsed,
                                   !.model_name = SplitLast(m)]
          /\ pc' = IF n < Len(MODEL_PRIORITY) THEN "invoke" ELSE "merge"
  /\ UNCHANGED <<file, add, GEMINI_API_KEY, catalog, MODEL_PRIORITY, current_data, old_map,
                 target_list, final_results, i, ticker, log>>

\* The model loop with model_name assigned before the response is parsed.
TryCandidate_StampFirst(responses) ==
  /\ pc = "invoke"
  /\ \E resp \in responses :
       LET n == fr.cursor
           m == MODEL_PRIORITY[n]
           parsed == ParseResponse(resp)
           tried == [fr EXCEPT !.attempts = Append(@, [n |-> n, ok |-> parsed # Raise]),
                               !.model_name = SplitLast(m)]
       IN IF parsed = Raise
          THEN /\ fr' = [tried EXCEPT !.cursor = n + 1]
               /\ pc' = IF n < Len(MODEL_PRIORITY) THEN "invoke" ELSE "merge"
          ELSE /\ fr' = [tried EXCEPT !.ai_part = parsed]
               /\ pc' = "merge"
  /\ UNCHANGED <<file, add, GEMINI_API_KEY, catalog, MODEL_PRIORITY, current_data, old_map,
                 target_list, final_results, i, ticker, log>>

\* Lines 133-143: one iteration of the model loop.  fr.cursor is the
\* position of the for loop in MODEL_PRIORITY; fr.attempts records which
\* position each iteration used and whether its response parsed.
TryCandidate(responses) ==
  /\ pc = "invoke"
  /\ \E resp \in responses :
       LET n == fr.cursor
           m == MODEL_PRIORITY[n]
           parsed == ParseResponse(resp)
       IN IF parsed = Raise
          THEN /\ fr' = [fr EXCEPT !.attempts = Append(@, [n |-> n, ok |-> FALSE]),
                                   !.cursor = n + 1]
               /\ pc' = IF n < Len(MODEL_PRIORITY) THEN "invoke" ELSE "merge"
          ELSE /\ fr' = [fr EXCEPT !.attempts = Append(@, [n |-> n, ok |-> TRUE]),
                                   !.ai_part = parsed,
                                   !.model_name = SplitLast(m)]
               /\ pc' = "merge"
  /\ UNCHANGED <<file, add, GEMINI_API_KEY, catalog, MODEL_PRIORITY, current_data, old_map,
                 target_list, final_results, i, ticker, log>>

\* The loop body saving the collection after every refreshed identifier.
Merge_WritesEach ==
  /\ pc = "merge"
  /\ Finish(final_data(fr, old_map[target_list[i]], ticker.info), Usable(fr.price))
  /\ file' = JL(final_results')
  /\ UNCHANGED <<add, GEMINI_API_KEY, catalog, MODEL_PRIORITY, current_data, old_map, target_list,
                 ticker, fr>>

\* Lines 145-210 and 239-247: merge, return, and the loop body's use of
\* the returned value.
Merge ==
  /\ pc = "merge"
  /\ Finish(final_data(fr, old_map[target_list[i]], ticker.info), Usable(fr.price))
  /\ UNCHANGED <<file, add, GEMINI_API_KEY, catalog, MODEL_PRIORITY, current_data, old_map, target_list,
                 ticker, fr>>

\* Line 250: open('data.json', 'w') truncates the file.
SaveOpen ==
  /\ pc = "save"
  /\ file' = BadFile
  /\ pc' = "dump"
  /\ UNCHANGED <<add, GEMINI_API_KEY, catalog, MODEL_PRIORITY, current_data, old_map, target_list,
                 final_results, i, ticker, fr, log>>

\* Line 251: json.dump and the close of the with block.
SaveDump ==
  /\ pc = "dump"
  /\ file' = JL(final_results)
  /\ pc' = "done"
  /\ UNCHANGED <<add, GEMINI_API_KEY, catalog, MODEL_PRIORITY, current_data, old_map, target_list,
                 final_results, i, ticker, fr, log>>

\* The operating system ends the process between two statements of the main
\* script (a signal, a cancelled job): nothing the script holds is written.
\* "killed-early" is the end before line 213 has loaded the collection.
Terminate ==
  /\ pc \in {"start", "fetch", "invoke", "merge", "save", "dump"}
  /\ pc' = IF pc = "start" THEN "killed-early" ELSE "killed"
  /\ UNCHANGED <<file, add, GEMINI_API_KEY, catalog, MODEL_PRIORITY, current_data, old_map,
                 target_list, final_results, i, ticker, fr, log>>

\* ------------------------------------------------------------------------
\* Inputs
\* ------------------------------------------------------------------------
MaxPrior == 2   \* longest prior collection of a whole run

IdA == <<"A">>
IdB == <<"B">>
IdC == <<"C">>
Ids == {IdA, IdB, IdC}

\* What a model returns when it follows the schema of the prompt; it also
\* carries a memo, a category and a price of its own.
FullOutput ==
  JO([industry |-> JO([moat_status |-> JS(<<"wide">>), position_map |-> JS(<<"leader">>),
                       competitors |-> JS(<<"few">>)]),
      financials |-> JO([eps_table |-> JL(<<JO([period |-> JS(<<"2025">>),
                                                  is_estimate |-> JB(TRUE)])>>),
                         revenue_trend |-> JL(<<JNum(7000)>>),
                         valuation |-> JO([pe_status |-> JS(<<"fair">>),
                                           pb |-> JS(<<"9.9">>),
                                           roe |-> JS(<<"25%">>),
                                           pe_river_data |->
                                             JO([dates |-> JL(<<JS(<<"1999-01">>)>>),
                                                 price |-> JL(<<JNum(1000)>>),
                                                 pe20 |-> JL(<<JNum(150000)>>),
                                                 pe16 |-> JL(<<JNum(120000)>>),
                                                 pe12 |-> JL(<<JNum(90000)>>)])])]),
      technical |-> JO([status |-> JS(<<"bull">>), signal_light |-> JS(<<"green_flash">>)]),
      news_events |-> JO([news |-> JL(<<JS(<<"headline">>)>>),
                          calendar |-> JL(<<JS(<<"meeting">>)>>)]),
      dividend |-> JO([yield |-> JS(<<"3%">>)]),
      memo |-> JS(<<"model memo">>),
      category |-> JS(<<"model category">>),
      basicInfo |-> JO([price |-> JS(<<"1", ".", "00">>)])])

Fenced(j) == JL(<<Ticks, JsonWord, Doc(j), Ticks>>)
Plain(j)  == JL(<<Doc(j)>>)

QuoteOk  == JO([last_price |-> JNum(100000), previous_close |-> JNum(98000)])
QuoteNone == EmptyDict
Year == JL(<<[ym |-> 24300, close |-> 90004], [ym |-> 24301, close |-> 95000],
            [ym |-> 24301, close |-> 99996]>>)
InfoOk == JO([longName |-> JS(<<"Long Name">>), priceToBook |-> JNum(5200)])

WorldOk ==
  [fast |-> QuoteOk, hist5 |-> EmptyList, news |-> EmptyList, hist1y |-> Year,
   info |-> InfoOk]
WorldNoPrice ==
  [fast |-> QuoteNone, hist5 |-> EmptyList, news |-> EmptyList, hist1y |-> Year,
   info |-> InfoOk]

\* A record as an earlier run wrote it for identifier id.
WrittenRecord(id) ==
  LET f == [NewFrame EXCEPT !.stock_id = id, !.price = JNum(80000),
                            !.change_str = <<"+", "1", ".", "00">>,
                            !.change_pct = <<"+", "1", ".", "27", "%">>,
                            !.name = JS(<<"Old Name">>)]
      r == final_data(f, JO([category |-> JS(<<"tech">>), memo |-> JS(<<"watch">>)]),
                      InfoOk)
  IN JO([r.v EXCEPT !.lastUpdated = JS(<<"earlier">>)])

\* An entry written by hand: identifier, category and memo only.
BareRecord(id) ==
  JO([id |-> JS(id), category |-> JS(<<"tech">>), memo |-> JS(<<"watch">>)])

IdOf(item) == item.v.id.v
UniqueIds(q) == \A m, n \in 1..Len(q) : m # n => IdOf(q[m]) # IdOf(q[n])

RunRecords == {WrittenRecord(id) : id \in Ids} \cup {BareRecord(id) : id \in Ids}
RunLists ==
  {q \in UNION {[1..n -> RunRecords] : n \in 0..MaxPrior} : UniqueIds(q)}
RunFiles == {JL(q) : q \in RunLists} \cup {NoFile}
RunAdds == {JNull, JS(<<" ", "b">>), JS(<<"a", ".", "t", "w">>)}
RunWorlds == {WorldOk, WorldNoPrice}
RunResponses == {Raise, Fenced(FullOutput), Plain(EmptyList)}

\* ------------------------------------------------------------------------
\* Specification of a whole run
\* ------------------------------------------------------------------------
RunInvocations == [file : RunFiles, add : RunAdds]
Init == Init0(RunInvocations, {TRUE}, {Raise})

Next ==
  \/ BuildWorkingSet
  \/ FetchFacts(RunWorlds)
  \/ TryCandidate(RunResponses)
  \/ Merge
  \/ SaveOpen
  \/ SaveDump
  \/ Terminate

Spec == Init /\ [][Next]_vars

\* ------------------------------------------------------------------------
\* Specification of a whole run that is left to run
\* ------------------------------------------------------------------------
\* The script is one sequential process: a statement that can run does run,
\* and every provider call returns or throws.
RunNext ==
  \/ BuildWorkingSet
  \/ FetchFacts(RunWorlds)
  \/ TryCandidate(RunResponses)
  \/ Merge
  \/ SaveOpen
  \/ SaveDump

\* Prior collections with one record per identifier, with and without a name.
ProgressRecords == {WrittenRecord(IdA), BareRecord(IdB), WrittenRecord(IdC)}
ProgressLists ==
  {q \in UNION {[1..n -> ProgressRecords] : n \in 0..MaxPrior} : UniqueIds(q)}
ProgressInvocations ==
  [file : {JL(q) : q \in ProgressLists} \cup {NoFile}, add : RunAdds]
ProgressInit == Init0(ProgressInvocations, {TRUE}, {Raise})

SpecRun == ProgressInit /\ [][RunNext]_vars /\ WF_vars(RunNext)

\* ------------------------------------------------------------------------
\* Specification of one get_stock_data call with every kind of answer
\* ------------------------------------------------------------------------
\* Model outputs that parse but do not follow the schema.
GoodIndustry == FullOutput.v.industry
OnlyIndustry    == JO([industry |-> GoodIndustry])
FinancialsStr   == JO([industry |-> GoodIndustry, financials |-> JS(<<"n/a">>)])
NewsEventsStr   == JO([industry |-> GoodIndustry, news_events |-> JS(<<"none">>)])
IndustryStr     == JO([industry |-> JS(<<"n/a">>), dividend |-> FullOutput.v.dividend])
RiverOf(pe20, pe16, pe12) ==
  JO([financials |-> JO([valuation |-> JO([pe_river_data |->
        JO([dates |-> EmptyList, price |-> EmptyList,
            pe20 |-> pe20, pe16 |-> pe16, pe12 |-> pe12])])])])
BandsEmpty      == RiverOf(EmptyList, EmptyList, EmptyList)
BandsNotList    == RiverOf(JS(<<"n/a">>), JNull, JNum(20000))
BandsShort      == RiverOf(JL(<<JNum(1000)>>), JL(<<JNum(1000)>>), JL(<<JNum(1000)>>))

EntityResponses ==
  {Raise, JL(<<Junk>>), JL(<<Doc(FullOutput), Junk>>),
   Fenced(FullOutput), Plain(EmptyDict), Plain(EmptyList), Plain(JNull),
   Plain(JS(<<"sorry">>)), Plain(OnlyIndustry), Fenced(FinancialsStr),
   Plain(NewsEventsStr), Plain(IndustryStr), Plain(BandsEmpty),
   Plain(BandsNotList), Plain(BandsShort)}

QuoteNull   == JO([last_price |-> JNull, previous_close |-> JNull])
QuoteNoPrev == JO([last_price |-> JNum(100000)])
Headline == JO([title |-> JS(<<"headline">>), providerPublishTime |-> JNum(1700000000)])
Year13 == JL([n \in 1..13 |-> [ym |-> 24288 + n, close |-> 90000 + 1000 * n]])
\* Month-end closes 100.00, 110.00, 120.00
Year3 == JL([n \in 1..3 |-> [ym |-> 24299 + n, close |-> 90000 + 10000 * n]])

EntityPrices ==
  [fast : {QuoteOk, Raise, QuoteNull, QuoteNoPrev}, hist5 : {EmptyList}]
  \cup [fast : {QuoteNone},
        hist5 : {Raise, EmptyList, JL(<<97500>>), JL(<<97000, 99000>>)}]
  \cup [fast : {Raise, QuoteNull}, hist5 : {JL(<<97000, 99000>>)}]

EntityWorlds ==
  {[fast |-> p.fast, hist5 |-> p.hist5, news |-> n, hist1y |-> h, info |-> f] :
     p \in EntityPrices, n \in {Raise, JL(<<Headline>>)},
     h \in {Raise, EmptyList, Year, Year13, Year3}, f \in {Raise, InfoOk, EmptyDict}}

\* Records of a prior collection that lack a field.
NoCategoryRecord(id) ==
  JO([id |-> JS(id), name |-> JS(<<"Old Name">>), memo |-> JS(<<"watch">>)])
NoMemoRecord(id) ==
  JO([id |-> JS(id), name |-> JS(<<"Old Name">>), category |-> JS(<<"tech">>)])

\* One identifier in the working set: a prior one, or a new one by --add.
EntityInvocations ==
  {[file |-> JL(<<r>>), add |-> JNull] :
     r \in {WrittenRecord(IdA), BareRecord(IdA), NoCategoryRecord(IdA),
            NoMemoRecord(IdA)}}
  \cup {[file |-> NoFile, add |-> JS(<<"b">>)]}

Entry(name) == [name |-> name, methods |-> {"generateContent"}]
ThreeTiers ==
  JL(<<Entry(Gemini15Flash), Entry(Gemini20FlashExp), Entry(Gemini15Pro),
       [name |-> Embedding001, methods |-> {"embedContent"}]>>)

EntityInit == Init0(EntityInvocations, BOOLEAN, {Raise, ThreeTiers})

EntityNext ==
  \/ BuildWorkingSet
  \/ FetchFacts(EntityWorlds)
  \/ TryCandidate(EntityResponses)
  \/ Merge
  \/ SaveOpen
  \/ SaveDump

SpecEntity == EntityInit /\ [][EntityNext]_vars

\* ------------------------------------------------------------------------
\* Specification of the priority list: every catalog, one new identifier
\* ------------------------------------------------------------------------
MaxCatalog == 3   \* longest answer of genai.list_models()

CatalogEntries ==
  {Entry(Gemini15Pro), Entry(Gemini15Flash), Entry(Gemini20FlashExp),
   Entry(Gemini20Pro), Entry(GeminiUltra),
   [name |-> Embedding001, methods |-> {"embedContent"}]}
Catalogs ==
  {JL(q) : q \in {c \in UNION {[1..n -> CatalogEntries] : n \in 0..MaxCatalog} :
                    \A j, k \in 1..Len(c) : j # k => c[j] # c[k]}}
  \cup {Raise}

ResolverInit == Init0({[file |-> NoFile, add |-> JS(<<"b">>)]}, {TRUE}, Catalogs)

ResolverNext ==
  \/ BuildWorkingSet
  \/ FetchFacts({WorldOk})
  \/ TryCandidate({Raise, Fenced(FullOutput)})
  \/ Merge
  \/ SaveOpen
  \/ SaveDump

SpecResolver == ResolverInit /\ [][ResolverNext]_vars

\* ------------------------------------------------------------------------
\* Properties
\* ------------------------------------------------------------------------
\* The iteration of the last logged identifier has ended; fr and ticker are
\* still those of that iteration.
Ended == Len(log) >= 1 /\ pc \in {"fetch", "save", "dump", "done"}
Last == log[Len(log)]
LastRecord == final_results[Len(final_results)]
Refreshed == Ended /\ Last.kind = "refresh"

Attempted == fr.attempts # <<>>
LastAttempt == fr.attempts[Len(fr.attempts)]
Succeeded == Attempted /\ LastAttempt.ok
AllFailed ==
  /\ Len(fr.attempts) = Len(MODEL_PRIORITY)
  /\ \A k \in 1..Len(fr.attempts) : ~fr.attempts[k].ok

\* line 243: the prior record is not the placeholder of line 230
HasRealContent(x) == HasKey(x, "name")

\* the iteration of identifier id ended without a record because no price
\* was obtained
FailedWithoutPrice(id) ==
  \E n \in 1..Len(log) :
    log[n].sid = id /\ log[n].kind # "refresh" /\ ~log[n].usable

\* C1: when the run has written data.json, every prior record that has
\* real content and whose refresh failed for lack of a price is in the
\* written collection, equal in every field to what it was.
C1_CarryOver ==
  pc = "done" =>
    \A k \in 1..Len(current_data) :
      (HasRealContent(current_data[k]) /\ FailedWithoutPrice(IdOf(current_data[k])))
        => InList(file.v, current_data[k])

C1_Witness ==
  /\ pc = "done"
  /\ Len(file.v) = 2
  /\ \E k \in 1..Len(current_data) :
       /\ HasRealContent(current_data[k])
       /\ current_data[k].v.memo = JS(<<"watch">>)
       /\ FailedWithoutPrice(IdOf(current_data[k]))
       /\ InList(file.v, current_data[k])
  /\ \E n \in 1..Len(log) : log[n].kind = "refresh"

\* The order of the attempts of one get_stock_data call: the k-th attempt
\* uses the k-th candidate, nothing is attempted after a response parsed,
\* and the loop is left only after a success or after the last candidate.
AttemptsInOrder ==
  /\ Len(fr.attempts) <= Len(MODEL_PRIORITY)
  /\ \A k \in 1..Len(fr.attempts) : fr.attempts[k].n = k
  /\ \A k \in 1..(Len(fr.attempts) - 1) : ~fr.attempts[k].ok
  /\ (pc = "invoke" => ~Succeeded)
  /\ (pc = "merge" /\ GEMINI_API_KEY => Succeeded \/ AllFailed)
  /\ (~Succeeded => fr.model_name = ModelNone)

\* C2 as amended: candidates are attempted strictly in list order, each at
\* most once, the loop stops at the first candidate whose response parses,
\* and the stamped model is the part of that candidate's identifier after
\* its last '/'.
C2_FallbackOrder ==
  /\ AttemptsInOrder
  /\ (Succeeded => fr.model_name = SplitLast(MODEL_PRIORITY[LastAttempt.n]))

\* C2 as stated: the same, with the candidate's identifier itself stamped.
C2_StampsIdentifier ==
  /\ AttemptsInOrder
  /\ (Succeeded => fr.model_name = MODEL_PRIORITY[LastAttempt.n])

C2_Witness ==
  /\ Refreshed
  /\ Len(MODEL_PRIORITY) = 3
  /\ fr.attempts = <<[n |-> 1, ok |-> FALSE], [n |-> 2, ok |-> FALSE],
                     [n |-> 3, ok |-> TRUE]>>
  /\ LastRecord.v.ai_model = JS(SplitLast(MODEL_PRIORITY[3]))

\* C3: when a price was obtained and every candidate failed, a record is
\* emitted whose model stamp is "N/A" and whose qualitative fields are
\* the defaults of the merge or values computed from the facts.
C3_AllCandidatesFailed ==
  (Ended /\ GEMINI_API_KEY /\ AllFailed /\ Usable(fr.price)) =>
    /\ Last.kind = "refresh"
    /\ LET r == LastRecord.v
           val == r.financials.v.valuation.v
           river == val.pe_river_data.v
       IN /\ r.ai_model = JS(ModelNone)
          /\ r.industry = IndustryDefault
          /\ r.technical = TechnicalDefault
          /\ r.dividend = DividendDefault
          /\ r.news_events = JO([news |-> EmptyList, calendar |-> EmptyList])
          /\ r.financials.v.eps_table = EmptyList
          /\ r.financials.v.revenue_trend = EmptyList
          /\ val.pe_status = Dash
          /\ val.roe = Dash
          /\ val.pb = PriceToBook(ticker.info)
          /\ river.pe20 = NumList(Scale(fr.prices, 12))
          /\ river.pe16 = NumList(Scale(fr.prices, 10))
          /\ river.pe12 = NumList(Scale(fr.prices, 8))

C3_Witness ==
  /\ Refreshed
  /\ AllFailed
  /\ Len(fr.attempts) = 3
  /\ fr.prices # <<>>
  /\ LastRecord.v.ai_model = JS(ModelNone)

\* C4: in every record a refresh emits, the price, the change, the percent
\* change and the chart's dates and price line are the ones computed from
\* the provider's answers of this iteration, whatever the model returned.
C4_FactPrecedence ==
  Refreshed =>
    LET rp == ResolvePrice(ticker.fast, ticker.hist5)
        series == MonthlySeries(ticker.hist1y.v)
        r == LastRecord.v
        river == r.financials.v.valuation.v.pe_river_data.v
    IN /\ r.basicInfo.v.price = JS(Fmt2(rp.price.v))
       /\ r.basicInfo.v.change = JS(rp.change_str)
       /\ r.basicInfo.v.changePercent = JS(rp.change_pct)
       /\ river.dates = StrList(series.dates)
       /\ river.price = NumList(series.prices)

C4_Witness ==
  /\ Refreshed
  /\ fr.ai_part = FullOutput
  /\ fr.prices # <<>>
  /\ LastRecord.v.basicInfo.v.price # FullOutput.v.basicInfo.v.price
  /\ LastRecord.v.basicInfo.v.price = JS(<<"100", ".", "00">>)

\* a record of the written collection that this run's refresh produced
FreshlyWritten(r) == r.v.lastUpdated = JS(Now)
PriorOf(id) ==
  current_data[CHOOSE k \in 1..Len(current_data) : IdOf(current_data[k]) = id]
HasPrior(id) == \E k \in 1..Len(current_data) : IdOf(current_data[k]) = id

\* C5: in the written collection, every record produced by this run's
\* refresh carries the memo and category of the prior record of its
\* identifier when there is one (the defaults of line 166/169 for a field
\* the prior record lacks), and the defaults of a new identifier otherwise.
C5_MemoCategoryPreserved ==
  pc = "done" =>
    \A n \in 1..Len(file.v) :
      LET r == file.v[n]
      IN FreshlyWritten(r) =>
           IF HasPrior(IdOf(r))
           THEN /\ r.v.memo = DictGet(PriorOf(IdOf(r)), "memo", JS(<<>>))
                /\ r.v.category =
                     DictGet(PriorOf(IdOf(r)), "category", JS(CategoryUnclassified))
           ELSE /\ r.v.memo = JS(<<>>)
                /\ r.v.category = JS(CategoryNew)

\* C6: the written collection has no two records with the same identifier
\* (the prior collection has none).
C6_UniqueIdentifiers ==
  pc = "done" => UniqueIds(file.v)

\* C7: every identifier of the prior collection is the identifier of a
\* record of the written collection.
C7_NoDeletion ==
  pc = "done" =>
    \A k \in 1..Len(current_data) :
      \E n \in 1..Len(file.v) : IdOf(file.v[n]) = IdOf(current_data[k])

\* the provider's answers let get_stock_data reach the merge
SnapshotUsable ==
  /\ Usable(fr.price)
  /\ ticker.hist1y # Raise
  /\ ticker.info # Raise

\* C8: with a usable snapshot, whatever the model loop left in ai_part (no
\* output, an empty object, a list, null, a string, an object with
\* missing or wrong-typed fields), the iteration ends with a new record.
C8_MergeTotal ==
  (Ended /\ SnapshotUsable) => Last.kind = "refresh"

QualitativeDefault ==
  [industry |-> IndustryDefault, technical |-> TechnicalDefault,
   dividend |-> DividendDefault]

\* C9: when a candidate succeeded with an object, the iteration ends with
\* a record in which each of industry, technical and dividend is the
\* model's value when that value is an object and the field's own default
\* when it is missing or of another type, whatever the other fields are.
C9_PerFieldDefaults ==
  (Ended /\ SnapshotUsable /\ Succeeded /\ IsDict(fr.ai_part)) =>
    /\ Last.kind = "refresh"
    /\ \A k \in DOMAIN QualitativeDefault :
         LastRecord.v[k] =
           IF HasKey(fr.ai_part, k) /\ IsDict(fr.ai_part.v[k])
           THEN fr.ai_part.v[k] ELSE QualitativeDefault[k]

\* a band that fits the trusted price series
ValidBand(b) == b.t = "list" /\ Len(b.v) = Len(fr.prices)

\* C10: in every record a refresh emits for a non-empty price series, each
\* of pe20, pe16 and pe12 is a non-empty list as long as the price series.
C10_ChartNeverEmpty ==
  (Refreshed /\ fr.prices # <<>>) =>
    LET river == LastRecord.v.financials.v.valuation.v.pe_river_data.v
    IN ValidBand(river.pe20) /\ ValidBand(river.pe16) /\ ValidBand(river.pe12)

\* ------------------------------------------------------------------------
\* The derived bands of the chart
\* ------------------------------------------------------------------------
River(r) == r.v.financials.v.valuation.v.pe_river_data.v

\* The model's output carries a value under financials.valuation.pe_river_data
\* for the band (the chained .get of lines 158-160 finds the key).
ModelGaveBand(ai, band) ==
  /\ IsDict(ai) /\ HasKey(ai, "financials")
  /\ IsDict(ai.v.financials) /\ HasKey(ai.v.financials, "valuation")
  /\ IsDict(ai.v.financials.v.valuation)
  /\ HasKey(ai.v.financials.v.valuation, "pe_river_data")
  /\ IsDict(ai.v.financials.v.valuation.v.pe_river_data)
  /\ HasKey(ai.v.financials.v.valuation.v.pe_river_data, band)
ModelGaveNoBand ==
  \A band \in {"pe20", "pe16", "pe12"} : ~ModelGaveBand(fr.ai_part, band)

\* band[n] = num/10 * price[n] for every point, in the same order
IsScaled(band, price, num) ==
  /\ band.t = "list" /\ Len(band.v) = Len(price.v)
  /\ \A n \in 1..Len(price.v) :
       band.v[n].t = "num" /\ 10 * band.v[n].v = num * price.v[n].v

\* C11: when the model output provides no valuation bands, the emitted upper,
\* middle and lower bands are 1.2, 1.0 and 0.8 times the emitted price series,
\* element by element, with the same length and order.
C11_DerivedSeries ==
  (Refreshed /\ ModelGaveNoBand) =>
     LET rv == River(LastRecord)
     IN /\ rv.price = NumList(fr.prices)
        /\ IsScaled(rv.pe20, rv.price, 12)
        /\ IsScaled(rv.pe16, rv.price, 10)
        /\ IsScaled(rv.pe12, rv.price, 8)

\* The example of the law: P = [100, 110, 120].
C11_Witness ==
  /\ Refreshed /\ ModelGaveNoBand
  /\ fr.prices = <<100000, 110000, 120000>>
  /\ River(LastRecord).pe20 = NumList(<<120000, 132000, 144000>>)
  /\ River(LastRecord).pe16 = NumList(<<100000, 110000, 120000>>)
  /\ River(LastRecord).pe12 = NumList(<<80000, 88000, 96000>>)

\* ------------------------------------------------------------------------
\* Working set and order of the written collection
\* ------------------------------------------------------------------------
PriorIds == [k \in 1..Len(current_data) |-> IdOf(current_data[k])]
AddId == Upper(Strip(add.v))
AddIsNew == Truthy(add) /\ ~InList(PriorIds, AddId)
Built == pc \notin {"start", "crashed", "killed-early"}

\* The working set is the prior identifiers in prior order, the identifier of
\* the add request before them exactly when it is not one of them.
WorkingSetLaw ==
  Built => target_list = IF AddIsNew THEN <<AddId>> \o PriorIds ELSE PriorIds

Emits(e) == e.kind # "drop"
StockIdOf(sid) == RemoveAll(sid, <<".", "T", "W">>)

\* The written collection holds one record per identifier that emitted one,
\* in the order of the working set.
OutputInOrder ==
  pc = "done" =>
    LET emitted == SelectSeq(log, Emits)
    IN /\ [k \in 1..Len(log) |-> log[k].sid] = target_list
       /\ file = JL(final_results)
       /\ Len(final_results) = Len(emitted)
       /\ \A k \in 1..Len(emitted) :
            IdOf(final_results[k]) = StockIdOf(emitted[k].sid)

\* Prior [A], add request B, B refreshed and A's fetch failing.
PrependScenario ==
  /\ pc = "done"
  /\ PriorIds = <<IdA>> /\ AddIsNew /\ AddId = IdB
  /\ log[1].kind = "refresh" /\ log[2].kind # "refresh"

\* C12: the working set is the prior identifiers in prior order with the add
\* request's identifier prepended iff it is not among them; the written
\* collection lists the emitted records in working-set order; with prior [A],
\* add request B, A failing and B succeeding it is [B's new record, A's prior
\* record].
C12_WorkingSetOrder ==
  /\ WorkingSetLaw
  /\ OutputInOrder
  /\ PrependScenario =>
       /\ Len(file.v) = 2
       /\ IdOf(file.v[1]) = IdB /\ FreshlyWritten(file.v[1])
       /\ file.v[2] = current_data[1]

\* ------------------------------------------------------------------------
\* Price fallback
\* ------------------------------------------------------------------------
\* The quote call failed, or its answer has no price or a price of zero.
QuoteUnavailable ==
  \/ ticker.fast = Raise
  \/ DictGet(ticker.fast, "last_price", JNum(0)) \in {JNum(0), JNull}
HistoryNonEmpty == ticker.hist5 # Raise /\ ticker.hist5.v # <<>>

\* C13: an entity whose quote is zero or unavailable and whose 5-day history
\* is non-empty gets the last close as its price and is not skipped; with two
\* or more closes the change and the change-percent are those of the two most
\* recent closes.
C13_PriceFallback ==
  (Ended /\ QuoteUnavailable /\ HistoryNonEmpty) =>
     LET closes == ticker.hist5.v
         last == closes[Len(closes)]
     IN /\ fr.price = JNum(last)
        /\ Usable(fr.price)
        /\ Len(closes) >= 2 =>
             LET prev == closes[Len(closes) - 1]
             IN /\ fr.change_str = FmtSigned2(last - prev)
                /\ fr.change_pct = FmtPct(last - prev, prev)

\* ------------------------------------------------------------------------
\* Persistence
\* ------------------------------------------------------------------------
AllResolved == Len(log) = Len(target_list) /\ i > Len(target_list)

\* C14: the persisted collection changes only in the save at the end of the
\* run, after every identifier of the working set has been resolved, and is
\* not changed again once written; up to the save, and when the process is
\* terminated before it, the persisted collection is the prior one.
C14_SingleFinalWrite ==
  [][file' # file => (pc \in {"save", "dump"} /\ pc' \in {"dump", "done"} /\ AllResolved)]_vars

\* Terminated in the middle of the loop with a record already collected: the
\* file still holds the prior collection.
C14_Witness ==
  /\ pc = "killed"
  /\ 1 <= Len(log) /\ Len(log) < Len(target_list)
  /\ final_results # <<>>
  /\ file = JL(current_data)
  /\ file # JL(final_results)

\* C15: the persisted collection is at all times the complete prior
\* collection or the complete new one, also when the process stops during
\* the write; it is never an empty or truncated file in between.
C15_AtomicPersist ==
  Built =>
    \/ get_current_list(file) = current_data
    \/ AllResolved /\ file = JL(final_results)

\* ------------------------------------------------------------------------
\* Progress of the run
\* ------------------------------------------------------------------------
\* The identifiers processed so far are the first ones of the working set,
\* one log entry each, in its order.
ProcessedInOrder ==
  Built =>
    /\ Len(log) = i - 1 /\ Len(log) <= Len(target_list)
    /\ \A k \in 1..Len(log) : log[k].sid = target_list[k]

\* C16: whatever fails for the entities of a run, every identifier of the
\* working set is processed exactly once, in order, and the run eventually
\* reaches the save with all of them resolved.
C16_FailuresAbsorbed ==
  []ProcessedInOrder /\ <>(pc = "save" /\ AllResolved)

\* The save is reached after a first identifier that failed and was dropped
\* and a second one that was processed after it.
C16_Witness ==
  /\ pc = "save" /\ AllResolved
  /\ Len(log) >= 2
  /\ log[1].kind = "drop"
  /\ log[2].kind = "refresh"

\* ------------------------------------------------------------------------
\* Failures of the fact retrieval and of the model output
\* ------------------------------------------------------------------------
\* The model loop left no output or one that follows the schema.
ModelOutputSound == fr.ai_part \in {EmptyDict, FullOutput}

\* C17: when the price is obtainable, a failure of the news, of the one-year
\* history or of the profile retrieval does not prevent the record: the
\* failed part is empty (no news, an empty chart, the identifier as name) and
\* the entity is refreshed.
C17_IsolatedFactFailures ==
  (Ended /\ Usable(fr.price) /\ ModelOutputSound) =>
     /\ Refreshed
     /\ ticker.news = Raise => fr.news_text = <<>>
     /\ ticker.hist1y = Raise =>
          /\ River(LastRecord).price = EmptyList
          /\ River(LastRecord).dates = EmptyList
     /\ ticker.info = Raise => LastRecord.v.name = JS(fr.stock_id)

\* C18: a candidate's response is accepted only when it parses to a
\* structured object; after a response that parses to a list, null, a number
\* or a string the loop goes on to the next candidate and no model is
\* stamped for it.
C18_WrongShapeIsFailure ==
  /\ Succeeded => IsDict(fr.ai_part)
  /\ fr.model_name # ModelNone => IsDict(fr.ai_part)
  /\ ~IsDict(fr.ai_part) => fr.cursor = Len(fr.attempts) + 1

\* ------------------------------------------------------------------------
\* The priority list
\* ------------------------------------------------------------------------
\* The catalog's models that support generation and carry the family name.
Filtered ==
  IF catalog = Raise THEN {}
  ELSE {catalog.v[k].name : k \in {n \in 1..Len(catalog.v) : Generates(catalog.v[n])}}

Occurrences(q, m) == Cardinality({k \in 1..Len(q) : q[k] = m})

\* 1 preview/experimental, 2 high-capability, 3 fast
Tier(m) ==
  IF Contains(m, <<"e","x","p">>) THEN 1
  ELSE IF Contains(m, <<"p","r","o">>) THEN 2
  ELSE 3

\* C19: the resolved list holds every model of the filtered catalog exactly
\* once and nothing else, experimental before high-capability before fast,
\* descending by identifier inside a tier; it is the two-element default when
\* the catalog query fails or matches nothing.
C19_PriorityResolution ==
  IF Filtered = {}
  THEN MODEL_PRIORITY = default_models
  ELSE /\ \A m \in Filtered : Occurrences(MODEL_PRIORITY, m) = 1
       /\ \A k \in 1..Len(MODEL_PRIORITY) : MODEL_PRIORITY[k] \in Filtered
       /\ \A j, k \in 1..Len(MODEL_PRIORITY) :
            j < k =>
              \/ Tier(MODEL_PRIORITY[j]) < Tier(MODEL_PRIORITY[k])
              \/ /\ Tier(MODEL_PRIORITY[j]) = Tier(MODEL_PRIORITY[k])
                 /\ StrLess(MODEL_PRIORITY[k], MODEL_PRIORITY[j])

\* ------------------------------------------------------------------------
\* The placeholder of an add request
\* ------------------------------------------------------------------------
\* The add request named a new identifier and its refresh failed.
AddFailed == pc = "done" /\ AddIsNew /\ log[1].sid = AddId /\ log[1].kind # "refresh"

\* C20: when the refresh of a newly added identifier fails, nothing is
\* written for it, the placeholder least of all, and the written collection
\* is made of the records of the other identifiers alone: each looked up
\* under its own prior record, carried over unchanged or refreshed with its
\* own memo and category, in their order.
C20_PlaceholderNotPersisted ==
  AddFailed =>
    LET others == SelectSeq(Tail(log), Emits)
    IN /\ log[1].kind = "drop"
       /\ \A n \in 1..Len(file.v) : file.v[n] # Placeholder(AddId)
       /\ Len(file.v) = Len(others)
       /\ \A k \in 2..Len(target_list) :
            old_map[target_list[k]] = PriorOf(target_list[k])
       /\ \A n \in 1..Len(others) :
            LET r == file.v[n]
                prior == PriorOf(others[n].sid)
            IN /\ IdOf(r) = others[n].sid
               /\ others[n].kind = "carry" => r = prior
               /\ others[n].kind = "refresh" =>
                    /\ r.v.memo = DictGet(prior, "memo", JS(<<>>))
                    /\ r.v.category = DictGet(prior, "category", JS(CategoryUnclassified))

\* B is added to a collection holding A; B's refresh fails and leaves nothing,
\* A is carried over.
C20_Witness ==
  /\ AddFailed /\ AddId = IdB
  /\ Len(log) = 2 /\ log[2].kind = "carry"
  /\ file = JL(<<current_data[1]>>)

====
